---- MODULE Spec2Model ----
(***************************************************************************)
(* A model of bot.py, the Telegram message router: the persisted           *)
(* configuration document, the in-process super-admin list, the pending    *)
(* next-step handlers of every chat, and one action per message handler.   *)
(* Text is a sequence of one-character strings, so that split, strip,      *)
(* lower, startswith, "in" and int are computed as Python computes them.   *)
(***************************************************************************)
EXTENDS Integers, Sequences, FiniteSets, TLC

(***************************************************************************)
(* Python values and the str operations the handlers use.                  *)
(***************************************************************************)

\* Python's None (an absent text, username or monitor_channel): a one-element
\* sequence whose element is no character, so no text equals it.
None == <<"None">>

Whitespace == {" "}

Digits == <<"0", "1", "2", "3", "4", "5", "6", "7", "8", "9">>

UpperCase == <<"A", "B", "E", "R">>

LowerCase == <<"a", "b", "e", "r">>

\* str.lower() of one character.
lower_char(c) ==
    IF \E i \in DOMAIN UpperCase : UpperCase[i] = c
    THEN LowerCase[CHOOSE i \in DOMAIN UpperCase : UpperCase[i] = c]
    ELSE c

\* str.lower()
lower(s) == [i \in 1..Len(s) |-> lower_char(s[i])]

RECURSIVE lstrip(_)
lstrip(s) == IF s # <<>> /\ Head(s) \in Whitespace THEN lstrip(Tail(s)) ELSE s

RECURSIVE rstrip(_)
rstrip(s) ==
    IF s # <<>> /\ s[Len(s)] \in Whitespace
    THEN rstrip(SubSeq(s, 1, Len(s) - 1))
    ELSE s

\* str.strip()
strip(s) == rstrip(lstrip(s))

\* str.split(','): the pieces between commas, empty pieces included.
RECURSIVE split(_)
split(s) ==
    IF \A i \in 1..Len(s) : s[i] # ","
    THEN <<s>>
    ELSE LET i == CHOOSE k \in 1..Len(s) :
                      s[k] = "," /\ \A j \in 1..(k - 1) : s[j] # ","
         IN  <<SubSeq(s, 1, i - 1)>> \o split(SubSeq(s, i + 1, Len(s)))

\* [x.strip() for x in text.split(',')]
split_strip(s) == LET parts == split(s) IN [i \in 1..Len(parts) |-> strip(parts[i])]

\* str.startswith(prefix)
startswith(s, prefix) ==
    Len(prefix) <= Len(s) /\ SubSeq(s, 1, Len(prefix)) = prefix

\* sub in s
contains(sub, s) ==
    \E i \in 0..(Len(s) - Len(sub)) : SubSeq(s, i + 1, i + Len(sub)) = sub

\* x in list
member(x, list) == \E i \in 1..Len(list) : list[i] = x

is_digit(c) == \E i \in DOMAIN Digits : Digits[i] = c

digit_value(c) == (CHOOSE i \in DOMAIN Digits : Digits[i] = c) - 1

RECURSIVE digits_value(_)
digits_value(s) ==
    IF s = <<>> THEN 0
    ELSE 10 * digits_value(SubSeq(s, 1, Len(s) - 1)) + digit_value(s[Len(s)])

\* The digits of an integer literal: the text stripped, without its sign.
int_digits(s) ==
    LET t == strip(s)
    IN  IF t # <<>> /\ t[1] \in {"+", "-"} THEN Tail(t) ELSE t

\* int(s) raises ValueError unless s is an optionally signed run of digits.
int_raises(s) ==
    LET d == int_digits(s)
    IN  d = <<>> \/ \E i \in 1..Len(d) : ~is_digit(d[i])

\* int(s)
int(s) ==
    LET t == strip(s)
        v == digits_value(int_digits(s))
    IN  IF t[1] = "-" THEN 0 - v ELSE v

\* A slip in the call: list.pop() without the index drops the last entry.
pop_rest_last(list, index) == SubSeq(list, 1, Len(list) - 1)

\* list.pop(index) leaves the list without that entry; index is 0-based and a
\* negative index counts from the end.
pop_rest(list, index) ==
    LET k == IF index < 0 THEN Len(list) + index + 1 ELSE index + 1
    IN  SubSeq(list, 1, k - 1) \o SubSeq(list, k + 1, Len(list))

\* list.pop(index) raises IndexError.
pop_raises(list, index) == index >= Len(list) \/ index < 0 - Len(list)

\* The entry list.pop(index) returns.
pop_item(list, index) ==
    list[IF index < 0 THEN Len(list) + index + 1 ELSE index + 1]

(***************************************************************************)
(* The world of the model: who writes, where, and what.                    *)
(***************************************************************************)

CMD_HELP == <<"/", "h", "e", "l", "p">>

CMD_STATUS == <<"/", "s", "t", "a", "t", "u", "s">>

CMD_GET_GROUP_ID == <<"/", "g", "e", "t", "_", "g", "r", "o", "u", "p", "_", "i", "d">>

CMD_SET_MONITOR_CHANNEL == <<"/", "s", "e", "t", "_", "m", "o", "n", "i", "t", "o", "r", "_", "c", "h", "a", "n", "n", "e", "l">>

CMD_SET_KEYWORD_INITIAL == <<"/", "s", "e", "t", "_", "k", "e", "y", "w", "o", "r", "d", "_", "i", "n", "i", "t", "i", "a", "l">>

CMD_SET_KEYWORD_CONTAIN == <<"/", "s", "e", "t", "_", "k", "e", "y", "w", "o", "r", "d", "_", "c", "o", "n", "t", "a", "i", "n">>

CMD_SET_SENDING_CHANNEL == <<"/", "s", "e", "t", "_", "s", "e", "n", "d", "i", "n", "g", "_", "c", "h", "a", "n", "n", "e", "l">>

CMD_ADD_ADMIN == <<"/", "a", "d", "d", "_", "a", "d", "m", "i", "n">>

CMD_RM_ADMIN == <<"/", "r", "m", "_", "a", "d", "m", "i", "n">>

CommandTexts ==
    {CMD_HELP, CMD_STATUS, CMD_GET_GROUP_ID, CMD_SET_MONITOR_CHANNEL,
     CMD_SET_KEYWORD_INITIAL, CMD_SET_KEYWORD_CONTAIN, CMD_SET_SENDING_CHANNEL,
     CMD_ADD_ADMIN, CMD_RM_ADMIN}

\* The sentinel that clears a keyword list.
SENTINEL == <<".", "-", ".">>

\* Telegram usernames (message.from_user.username carries no '@').
ROOT == <<"r", "o", "o", "t">>

EVE == <<"e", "v", "e">>

Users == {ROOT, EVE}

\* The chats commands are written in (message.chat.id).
CHAT1 == <<"7">>

CHAT2 == <<"8">>

\* The channels bot.get_chat resolves; it raises for every other identifier.
Accessible == {<<"1">>, <<"2">>}

\* The channels posts arrive from (str(message.chat.id)).
Channels == {<<"1">>, <<"2">>}

\* SUPER_ADMINS as the environment gives it at startup.
StartupSuperAdmins == <<(<<"@">> \o ROOT)>>

KeywordInitialLimit == 5

KeywordContainLimit == 5

SendingChannelLimit == 3

(***************************************************************************)
(* State.                                                                  *)
(***************************************************************************)

VARIABLES
    store,          \* the object at CONFIG_KEY: <<>> (no such key) or <<document>>
    SUPER_ADMINS,   \* the module-level list
    next_step,      \* per chat, the handler registered for its next message
    msg,            \* the message or post the last handler ran on
    handler,        \* the name of the last handler that ran
    reply,          \* what it answered or reported: <<kind, detail>>
    sent,           \* the copies it sent: <<destination, text>> in order
    logged,         \* the events it passed to log_event, in order
    log_lines,      \* the number of lines of the day's log unit
    listed,         \* per chat, the numbered list its pending /rm_admin showed
    running         \* per chat, the handler that has read the document and
                    \* not yet written it: <<>> or <<its local state>>

vars ==
    <<store, SUPER_ADMINS, next_step, msg, handler, reply, sent, logged,
      log_lines, listed, running>>

NoHandler == "none"

NoReply == <<"none", <<>>>>

\* No message: nothing has run yet, or what ran was no message handler.
NoMessage == [chat |-> None, username |-> None, text |-> None]

\* load_config(): the stored document, or the defaults, whose admins entry is
\* the SUPER_ADMINS list itself.
load_config ==
    IF store = <<>>
    THEN [monitor_channel |-> None,
          keyword_initial |-> <<>>,
          keyword_contain |-> <<>>,
          sending_channels |-> <<>>,
          admins |-> SUPER_ADMINS]
    ELSE store[1]

\* save_config(config)
save_config(config) == store' = <<config>>

\* bot.get_chat(channel_id) raises.
get_chat_raises(channel_id) == channel_id \notin Accessible

\* A slip in the comparison: the listed handles compared as they are stored.
is_admin_as_stored(username) ==
    LET config == load_config
    IN  IF username = None \/ username = <<>>
        THEN FALSE
        ELSE LET name == lower(IF ~startswith(username, <<"@">>)
                               THEN <<"@">> \o username
                               ELSE username)
             IN  member(name, config.admins) \/ member(name, SUPER_ADMINS)

\* is_admin(username)
is_admin(username) ==
    LET config == load_config
    IN  IF username = None \/ username = <<>>
        THEN FALSE
        ELSE LET name == lower(IF ~startswith(username, <<"@">>)
                               THEN <<"@">> \o username
                               ELSE username)
                 admins == [i \in 1..Len(config.admins) |-> lower(config.admins[i])]
                 super_admins == [i \in 1..Len(SUPER_ADMINS) |-> lower(SUPER_ADMINS[i])]
             IN  member(name, admins) \/ member(name, super_admins)

\* len(log_lines) > 500
LOG_LIMIT == 500

\* The lines a day's log unit may reach through the handlers of a run.
MaxLogLines == 1

\* log_event(event): the unit read, one line added, the unit written back
\* (a unit that does not exist yet counts no line).
log_event(lines) == lines + 1

\* One log_event for every event of a handler.
RECURSIVE log_events(_, _)
log_events(lines, events) ==
    IF events = <<>> THEN lines ELSE log_events(log_event(lines), Tail(events))

\* The list a chat has before it: the one /rm_admin answered with, until the
\* reply to it has been taken.
shown(m, h, r) ==
    IF h = "rm_admin_command" /\ r[1] = "admin_list"
    THEN [listed EXCEPT ![m.chat] = r[2]]
    ELSE IF h = "process_rm_admin"
    THEN [listed EXCEPT ![m.chat] = <<>>]
    ELSE listed

\* What a step of a handler leaves behind: for the observer, in the day's
\* log unit and in the chat.
Observed(m, h, r, s, l) ==
    /\ log_events(log_lines, l) <= MaxLogLines
    /\ msg' = m
    /\ handler' = h
    /\ reply' = r
    /\ sent' = s
    /\ logged' = l
    /\ log_lines' = log_events(log_lines, l)
    /\ listed' = shown(m, h, r)

\* A handler that runs from its first line to its last in one step.
Did(m, h, r, s, l) ==
    /\ Observed(m, h, r, s, l)
    /\ UNCHANGED running

\* telebot hands a chat message to the command handlers only when the chat
\* has no next-step handler registered.
IsCommand(m, text) == next_step[m.chat] = NoHandler /\ m.text = text

\* telebot hands the next message of the chat to the registered handler and
\* forgets the registration.
IsNextStep(m, h) == next_step[m.chat] = h

Denied(m, h) ==
    /\ Did(m, h, <<"denied", m.username>>, <<>>, <<>>)
    /\ UNCHANGED <<store, SUPER_ADMINS, next_step>>

\* A slip in the order: the registration made before the gate is asked.
PromptCommand_registers_first(m, h, continuation) ==
    /\ next_step' = [next_step EXCEPT ![m.chat] = continuation]
    /\ Did(m, h,
           IF is_admin(m.username) THEN <<"prompt", <<>>>> ELSE <<"denied", m.username>>,
           <<>>, <<>>)
    /\ UNCHANGED <<store, SUPER_ADMINS>>

\* The shape five commands share: the gate, the prompt, the registration.
PromptCommand(m, h, continuation) ==
    IF ~is_admin(m.username)
    THEN Denied(m, h)
    ELSE /\ Did(m, h, <<"prompt", <<>>>>, <<>>, <<>>)
         /\ next_step' = [next_step EXCEPT ![m.chat] = continuation]
         /\ UNCHANGED <<store, SUPER_ADMINS>>

(***************************************************************************)
(* The command handlers.                                                   *)
(***************************************************************************)

help_command(m) ==
    /\ IsCommand(m, CMD_HELP)
    /\ Did(m, "help_command", <<"help", <<>>>>, <<>>, <<>>)
    /\ UNCHANGED <<store, SUPER_ADMINS, next_step>>

status_command(m) ==
    /\ IsCommand(m, CMD_STATUS)
    /\ IF ~is_admin(m.username)
       THEN Denied(m, "status_command")
       ELSE LET config == load_config
                raises ==
                    \/ /\ config.monitor_channel # None
                       /\ get_chat_raises(config.monitor_channel)
                    \/ \E i \in 1..Len(config.sending_channels) :
                           get_chat_raises(config.sending_channels[i])
            IN  /\ Did(m, "status_command",
                       IF raises THEN <<"raised", <<>>>> ELSE <<"status", <<>>>>,
                       <<>>, <<>>)
                /\ UNCHANGED <<store, SUPER_ADMINS, next_step>>

get_group_id_command(m) ==
    /\ IsCommand(m, CMD_GET_GROUP_ID)
    /\ Did(m, "get_group_id_command", <<"group_id", <<>>>>, <<>>,
           <<(<<"get_group_id", <<>>>>)>>)
    /\ UNCHANGED <<store, SUPER_ADMINS, next_step>>

set_monitor_channel_command(m) ==
    /\ IsCommand(m, CMD_SET_MONITOR_CHANNEL)
    /\ PromptCommand(m, "set_monitor_channel_command", "process_set_monitor_channel")

set_keyword_initial_command(m) ==
    /\ IsCommand(m, CMD_SET_KEYWORD_INITIAL)
    /\ PromptCommand(m, "set_keyword_initial_command", "process_set_keyword_initial")

set_keyword_contain_command(m) ==
    /\ IsCommand(m, CMD_SET_KEYWORD_CONTAIN)
    /\ PromptCommand(m, "set_keyword_contain_command", "process_set_keyword_contain")

set_sending_channel_command(m) ==
    /\ IsCommand(m, CMD_SET_SENDING_CHANNEL)
    /\ PromptCommand(m, "set_sending_channel_command", "process_set_sending_channel")

add_admin_command(m) ==
    /\ IsCommand(m, CMD_ADD_ADMIN)
    /\ PromptCommand(m, "add_admin_command", "process_add_admin")

rm_admin_command(m) ==
    /\ IsCommand(m, CMD_RM_ADMIN)
    /\ IF ~is_admin(m.username)
       THEN Denied(m, "rm_admin_command")
       ELSE LET admins == load_config.admins
            IN  IF admins = <<>>
                THEN /\ Did(m, "rm_admin_command", <<"no_admins", <<>>>>, <<>>, <<>>)
                     /\ UNCHANGED <<store, SUPER_ADMINS, next_step>>
                ELSE /\ Did(m, "rm_admin_command", <<"admin_list", admins>>, <<>>,
                            <<(<<"rm_admin_request", <<>>>>)>>)
                     /\ next_step' = [next_step EXCEPT ![m.chat] = "process_rm_admin"]
                     /\ UNCHANGED <<store, SUPER_ADMINS>>

(***************************************************************************)
(* The next-step handlers.  message.text is None for a message that is no  *)
(* text; .strip() and .split() of None raise AttributeError, which no      *)
(* handler catches.                                                        *)
(***************************************************************************)

Raised(m, h) ==
    /\ Did(m, h, <<"raised", <<>>>>, <<>>, <<>>)
    /\ UNCHANGED <<store, SUPER_ADMINS>>

process_set_monitor_channel(m) ==
    /\ IsNextStep(m, "process_set_monitor_channel")
    /\ next_step' = [next_step EXCEPT ![m.chat] = NoHandler]
    /\ IF m.text = None
       THEN Raised(m, "process_set_monitor_channel")
       ELSE LET channel_id == strip(m.text)
                config == load_config
            IN  IF get_chat_raises(channel_id)
                THEN /\ Did(m, "process_set_monitor_channel",
                            <<"invalid_channel", <<>>>>, <<>>, <<>>)
                     /\ UNCHANGED <<store, SUPER_ADMINS>>
                ELSE /\ save_config([config EXCEPT !.monitor_channel = channel_id])
                     /\ Did(m, "process_set_monitor_channel",
                            <<"monitor_set", channel_id>>, <<>>,
                            <<(<<"set_monitor_channel", <<>>>>)>>)
                     /\ UNCHANGED SUPER_ADMINS

\* A slip in the limit: one keyword too many passes.
keyword_initial_too_many_off_by_one(keywords) == Len(keywords) > KeywordInitialLimit + 1

\* len(keywords) > 5
keyword_initial_too_many(keywords) == Len(keywords) > KeywordInitialLimit

process_set_keyword_initial(m) ==
    /\ IsNextStep(m, "process_set_keyword_initial")
    /\ next_step' = [next_step EXCEPT ![m.chat] = NoHandler]
    /\ IF m.text = None
       THEN Raised(m, "process_set_keyword_initial")
       ELSE LET input_text == strip(m.text)
                keywords == split_strip(input_text)
                config == load_config
            IN  IF input_text = SENTINEL
                THEN /\ save_config([config EXCEPT !.keyword_initial = <<>>])
                     /\ Did(m, "process_set_keyword_initial",
                            <<"keywords_cleared", <<>>>>, <<>>,
                            <<(<<"clear_keyword_initial", <<>>>>)>>)
                     /\ UNCHANGED SUPER_ADMINS
                ELSE IF keyword_initial_too_many(keywords)
                THEN /\ Did(m, "process_set_keyword_initial",
                            <<"too_many", <<>>>>, <<>>, <<>>)
                     /\ UNCHANGED <<store, SUPER_ADMINS>>
                ELSE /\ save_config([config EXCEPT !.keyword_initial = keywords])
                     /\ Did(m, "process_set_keyword_initial",
                            <<"keywords_set", <<>>>>, <<>>,
                            <<(<<"set_keyword_initial", <<>>>>)>>)
                     /\ UNCHANGED SUPER_ADMINS

\* len(keywords) > 5
keyword_contain_too_many(keywords) == Len(keywords) > KeywordContainLimit

process_set_keyword_contain(m) ==
    /\ IsNextStep(m, "process_set_keyword_contain")
    /\ next_step' = [next_step EXCEPT ![m.chat] = NoHandler]
    /\ IF m.text = None
       THEN Raised(m, "process_set_keyword_contain")
       ELSE LET input_text == strip(m.text)
                keywords == split_strip(input_text)
                config == load_config
            IN  IF input_text = SENTINEL
                THEN /\ save_config([config EXCEPT !.keyword_contain = <<>>])
                     /\ Did(m, "process_set_keyword_contain",
                            <<"keywords_cleared", <<>>>>, <<>>,
                            <<(<<"clear_keyword_contain", <<>>>>)>>)
                     /\ UNCHANGED SUPER_ADMINS
                ELSE IF keyword_contain_too_many(keywords)
                THEN /\ Did(m, "process_set_keyword_contain",
                            <<"too_many", <<>>>>, <<>>, <<>>)
                     /\ UNCHANGED <<store, SUPER_ADMINS>>
                ELSE /\ save_config([config EXCEPT !.keyword_contain = keywords])
                     /\ Did(m, "process_set_keyword_contain",
                            <<"keywords_set", <<>>>>, <<>>,
                            <<(<<"set_keyword_contain", <<>>>>)>>)
                     /\ UNCHANGED SUPER_ADMINS

\* len(channel_ids) > 3
sending_channels_too_many(channel_ids) == Len(channel_ids) > SendingChannelLimit

\* The loop over channel_ids: the position of the first identifier get_chat
\* raises for, 0 when every one resolves.
RECURSIVE first_invalid_from(_, _)
first_invalid_from(channel_ids, i) ==
    IF i > Len(channel_ids) THEN 0
    ELSE IF get_chat_raises(channel_ids[i]) THEN i
    ELSE first_invalid_from(channel_ids, i + 1)

\* A slip in the loop: it runs on after a failure and keeps the last one.
first_invalid_keeps_last(channel_ids) ==
    IF \A i \in 1..Len(channel_ids) : ~get_chat_raises(channel_ids[i])
    THEN 0
    ELSE CHOOSE i \in 1..Len(channel_ids) :
             /\ get_chat_raises(channel_ids[i])
             /\ \A j \in (i + 1)..Len(channel_ids) : ~get_chat_raises(channel_ids[j])

first_invalid(channel_ids) == first_invalid_from(channel_ids, 1)

process_set_sending_channel(m) ==
    /\ IsNextStep(m, "process_set_sending_channel")
    /\ next_step' = [next_step EXCEPT ![m.chat] = NoHandler]
    /\ IF m.text = None
       THEN Raised(m, "process_set_sending_channel")
       ELSE LET channel_ids == split_strip(m.text)
                bad == first_invalid(channel_ids)
                config == load_config
            IN  IF sending_channels_too_many(channel_ids)
                THEN /\ Did(m, "process_set_sending_channel",
                            <<"too_many", <<>>>>, <<>>, <<>>)
                     /\ UNCHANGED <<store, SUPER_ADMINS>>
                ELSE IF bad # 0
                THEN /\ Did(m, "process_set_sending_channel",
                            <<"invalid_channel", channel_ids[bad]>>, <<>>, <<>>)
                     /\ UNCHANGED <<store, SUPER_ADMINS>>
                ELSE /\ save_config([config EXCEPT !.sending_channels = channel_ids])
                     /\ Did(m, "process_set_sending_channel",
                            <<"sending_set", <<>>>>, <<>>,
                            <<(<<"set_sending_channel", <<>>>>)>>)
                     /\ UNCHANGED SUPER_ADMINS

\* config['admins'].append / admins.pop change the list in place; when the
\* list is the one load_config took from SUPER_ADMINS (no document stored),
\* SUPER_ADMINS is that list.
admins_in_place(admins) ==
    SUPER_ADMINS' = IF store = <<>> THEN admins ELSE SUPER_ADMINS

process_add_admin(m) ==
    /\ IsNextStep(m, "process_add_admin")
    /\ next_step' = [next_step EXCEPT ![m.chat] = NoHandler]
    /\ IF m.text = None
       THEN Raised(m, "process_add_admin")
       ELSE LET handle_name == strip(m.text)
                config == load_config
                admins == Append(config.admins, handle_name)
            IN  IF ~member(handle_name, config.admins)
                THEN /\ admins_in_place(admins)
                     /\ save_config([config EXCEPT !.admins = admins])
                     /\ Did(m, "process_add_admin",
                            <<"admin_added", handle_name>>, <<>>,
                            <<(<<"add_admin", handle_name>>)>>)
                ELSE /\ Did(m, "process_add_admin",
                            <<"already_admin", handle_name>>, <<>>, <<>>)
                     /\ UNCHANGED <<store, SUPER_ADMINS>>

\* A slip in the range check: the lower bound forgotten.
index_in_range_no_lower_bound(index, admins) == index < Len(admins)

\* 0 <= index < len(admins)
index_in_range(index, admins) == 0 <= index /\ index < Len(admins)

process_rm_admin(m) ==
    /\ IsNextStep(m, "process_rm_admin")
    /\ next_step' = [next_step EXCEPT ![m.chat] = NoHandler]
    /\ IF m.text = None
       THEN Raised(m, "process_rm_admin")
       ELSE IF int_raises(m.text)
       THEN /\ Did(m, "process_rm_admin", <<"not_a_number", <<>>>>, <<>>, <<>>)
            /\ UNCHANGED <<store, SUPER_ADMINS>>
       ELSE LET index == int(m.text) - 1
                config == load_config
                admins == config.admins
            IN  IF index_in_range(index, admins) /\ pop_raises(admins, index)
                THEN Raised(m, "process_rm_admin")
                ELSE IF index_in_range(index, admins)
                THEN /\ admins_in_place(pop_rest(admins, index))
                     /\ save_config([config EXCEPT !.admins = pop_rest(admins, index)])
                     /\ Did(m, "process_rm_admin",
                            <<"admin_removed", pop_item(admins, index)>>, <<>>,
                            <<(<<"rm_admin", pop_item(admins, index)>>)>>)
                ELSE /\ Did(m, "process_rm_admin",
                            <<"invalid_index", <<>>>>, <<>>, <<>>)
                     /\ UNCHANGED <<store, SUPER_ADMINS>>

(***************************************************************************)
(* The channel post handler.                                               *)
(***************************************************************************)

\* A slip in the gate: an unset monitor_channel lets every post through.
not_monitored_unless_unset(chat_id, config) ==
    config.monitor_channel # None /\ chat_id # config.monitor_channel

\* str(message.chat.id) != config['monitor_channel']
not_monitored(chat_id, config) == chat_id # config.monitor_channel

\* A slip in the match: the keyword compared as typed, not lower-cased.
prefix_hit_case_sensitive(text_lower, keyword) == startswith(text_lower, keyword)

\* text_lower.startswith(keyword.lower())
prefix_hit(text_lower, keyword) == startswith(text_lower, lower(keyword))

\* keyword.lower() in text_lower
substring_hit(text_lower, keyword) == contains(lower(keyword), text_lower)

\* The loop over keyword_initial: the first keyword that hits, from position i
\* on; <<>> when the loop ends with should_send still False.
RECURSIVE initial_loop(_, _, _)
initial_loop(text_lower, keyword_initial, i) ==
    IF i > Len(keyword_initial) THEN <<>>
    ELSE IF prefix_hit(text_lower, keyword_initial[i]) THEN <<keyword_initial[i]>>
    ELSE initial_loop(text_lower, keyword_initial, i + 1)

\* The loop over keyword_contain.
RECURSIVE contain_loop(_, _, _)
contain_loop(text_lower, keyword_contain, i) ==
    IF i > Len(keyword_contain) THEN <<>>
    ELSE IF substring_hit(text_lower, keyword_contain[i]) THEN <<keyword_contain[i]>>
    ELSE contain_loop(text_lower, keyword_contain, i + 1)

\* should_send and matched_keyword after both loops, as <<>> (should_send is
\* False) or <<matched_keyword>>.
matched(text, config) ==
    LET text_lower == lower(text)
        first == initial_loop(text_lower, config.keyword_initial, 1)
    IN  IF first # <<>> THEN first
        ELSE contain_loop(text_lower, config.keyword_contain, 1)

\* A slip in the loop: the try left out, so the first send that raises ends it.
send_all_until_raise(sending_channels, text, failing) ==
    LET raising == {i \in 1..Len(sending_channels) : sending_channels[i] \in failing}
        last == IF raising = {} THEN Len(sending_channels)
                ELSE CHOOSE i \in raising : \A j \in raising : i <= j
    IN  [i \in 1..last |-> <<sending_channels[i], text>>]

\* The loop over sending_channels: one bot.send_message(channel, text) for
\* every channel, in order; a send that raises (a channel of failing) is caught
\* inside the loop, which goes on to the next channel.
send_all(sending_channels, text, failing) ==
    [i \in 1..Len(sending_channels) |-> <<sending_channels[i], text>>]

\* The channels the except branch reports with logging.error, in order.
send_errors(sending_channels, failing) ==
    SelectSeq(sending_channels, LAMBDA channel : channel \in failing)

\* failing: the destinations bot.send_message raises for when this post comes.
handle_channel_post(p, failing) ==
    LET config == load_config
        text == IF p.text = None THEN <<>> ELSE p.text
        hit == matched(text, config)
        errors == <<"send_errors", send_errors(config.sending_channels, failing)>>
    IN  /\ IF not_monitored(p.chat, config)
           THEN Did(p, "handle_channel_post", NoReply, <<>>, <<>>)
           ELSE IF config.keyword_initial = <<>> /\ config.keyword_contain = <<>>
           THEN Did(p, "handle_channel_post", errors,
                    send_all(config.sending_channels, text, failing),
                    <<(<<"copy_default", <<>>>>)>>)
           ELSE IF hit # <<>>
           THEN Did(p, "handle_channel_post", errors,
                    send_all(config.sending_channels, text, failing),
                    <<(<<"copy_matched", hit[1]>>)>>)
           ELSE Did(p, "handle_channel_post", NoReply, <<>>, <<>>)
        /\ UNCHANGED <<store, SUPER_ADMINS, next_step>>

(***************************************************************************)
(* The log units.                                                          *)
(***************************************************************************)

\* The day changes: log_key names a unit that does not exist yet.
midnight ==
    /\ log_lines' = 0
    /\ msg' = NoMessage
    /\ handler' = "midnight"
    /\ reply' = NoReply
    /\ sent' = <<>>
    /\ logged' = <<>>
    /\ UNCHANGED <<store, SUPER_ADMINS, next_step, listed, running>>

\* len(log_lines[-500:])
last_lines(lines) == IF lines > LOG_LIMIT THEN LOG_LIMIT ELSE lines

\* clean_old_logs(): a unit of more than 500 lines is cut to its last 500 and
\* written back, and the cleanup is passed to log_event.
clean_old_logs ==
    /\ IF log_lines > LOG_LIMIT
       THEN /\ log_lines' = log_event(last_lines(log_lines))
            /\ logged' = <<(<<"clean_old_logs", <<>>>>)>>
       ELSE /\ log_lines' = log_lines
            /\ logged' = <<>>
    /\ msg' = NoMessage
    /\ handler' = "clean_old_logs"
    /\ reply' = NoReply
    /\ sent' = <<>>
    /\ UNCHANGED <<store, SUPER_ADMINS, next_step, listed, running>>

(***************************************************************************)
(* The bot: started with no configuration document stored, it takes chat   *)
(* messages and channel posts one handler at a time.                       *)
(***************************************************************************)

FIVE == <<"1", ",", "a", ",", "B", ",", "1", ",", "a">>

SIX == <<"1", ",", "1", ",", "1", ",", "1", ",", "1", ",", "1">>

\* What users write after each prompt.
MonitorTexts == {None, <<"1">>, <<"9">>}

KeywordInitialTexts == {None, SENTINEL, <<",">>, FIVE, SIX}

KeywordContainTexts == {None, SENTINEL, <<"1">>, FIVE, SIX}

SendingTexts ==
    {None,
     <<"1">>,
     <<"1", ",", " ", "2", ",", "1">>,
     <<"1", ",", "9", ",", "8">>,
     <<"1", ",", "9", ",", "1", ",", "1">>}

AddAdminTexts == {None, <<"@", "e", "v", "e">>}

RmAdminTexts == {None, SENTINEL, <<"1">>, <<"2">>, <<"9">>, <<"0">>, <<"-", "1">>}

PostTexts == {None, <<"1">>, <<"a", "B">>}

\* The chats of this run: the domain next_step was given at startup.
Chats == DOMAIN next_step

Messages == [chat : Chats, username : Users, text : CommandTexts]

Replies(texts) == [chat : Chats, username : Users, text : texts]

Posts == [chat : Channels, username : {None}, text : PostTexts]

\* The sets of destinations a send may raise for.
Failures == SUBSET Channels

InitIn(chats) ==
    /\ store = <<>>
    /\ SUPER_ADMINS = StartupSuperAdmins
    /\ next_step = [c \in chats |-> NoHandler]
    /\ msg = NoMessage
    /\ handler = "none"
    /\ reply = NoReply
    /\ sent = <<>>
    /\ logged = <<>>
    /\ log_lines = 0
    /\ listed = [c \in DOMAIN next_step |-> <<>>]
    /\ running = [c \in DOMAIN next_step |-> <<>>]

Init == InitIn({CHAT1})

Next ==
    \/ \E m \in Messages : help_command(m)
    \/ \E m \in Messages : status_command(m)
    \/ \E m \in Messages : get_group_id_command(m)
    \/ \E m \in Messages : set_monitor_channel_command(m)
    \/ \E m \in Messages : set_keyword_initial_command(m)
    \/ \E m \in Messages : set_keyword_contain_command(m)
    \/ \E m \in Messages : set_sending_channel_command(m)
    \/ \E m \in Messages : add_admin_command(m)
    \/ \E m \in Messages : rm_admin_command(m)
    \/ \E m \in Replies(MonitorTexts) : process_set_monitor_channel(m)
    \/ \E m \in Replies(KeywordInitialTexts) : process_set_keyword_initial(m)
    \/ \E m \in Replies(KeywordContainTexts) : process_set_keyword_contain(m)
    \/ \E m \in Replies(SendingTexts) : process_set_sending_channel(m)
    \/ \E m \in Replies(AddAdminTexts) : process_add_admin(m)
    \/ \E m \in Replies(RmAdminTexts) : process_rm_admin(m)
    \/ \E p \in Posts, failing \in Failures : handle_channel_post(p, failing)
    \/ midnight

Spec == Init /\ [][Next]_vars

(***************************************************************************)
(* The same bot serving two chats, with fewer things to write in each.     *)
(***************************************************************************)

InitChats == InitIn({CHAT1, CHAT2})

NextChats ==
    \/ \E m \in Messages : help_command(m)
    \/ \E m \in Messages : status_command(m)
    \/ \E m \in Messages : get_group_id_command(m)
    \/ \E m \in Messages : set_monitor_channel_command(m)
    \/ \E m \in Messages : set_keyword_initial_command(m)
    \/ \E m \in Messages : set_keyword_contain_command(m)
    \/ \E m \in Messages : set_sending_channel_command(m)
    \/ \E m \in Messages : add_admin_command(m)
    \/ \E m \in Messages : rm_admin_command(m)
    \/ \E m \in Replies({None, <<"1">>, <<"9">>}) : process_set_monitor_channel(m)
    \/ \E m \in Replies({CMD_HELP, SIX}) : process_set_keyword_initial(m)
    \/ \E m \in Replies({SENTINEL, SIX}) : process_set_keyword_contain(m)
    \/ \E m \in Replies({<<"1">>, <<"9">>}) : process_set_sending_channel(m)
    \/ \E m \in Replies({<<"@", "e", "v", "e">>}) : process_add_admin(m)
    \/ \E m \in Replies({None, <<"1">>, <<"9">>}) : process_rm_admin(m)
    \/ \E p \in [chat : Channels, username : {None}, text : {None}],
             failing \in Failures :
           handle_channel_post(p, failing)
    \/ midnight

SpecChats == InitChats /\ [][NextChats]_vars

(***************************************************************************)
(* The channel post handler alone, on stored documents and posts drawn     *)
(* from small sets.                                                        *)
(***************************************************************************)

DecideKeywords == {<<>>, <<"a">>, <<"B">>, <<"b", "A">>}

DecideKeywordLists ==
    {<<>>} \cup {<<k>> : k \in DecideKeywords}
           \cup {<<k, l>> : k \in DecideKeywords, l \in DecideKeywords}

DecideConfigs ==
    [monitor_channel : {<<"1">>},
     keyword_initial : DecideKeywordLists,
     keyword_contain : DecideKeywordLists,
     sending_channels : {<<(<<"2">>), (<<"1">>)>>},
     admins : {StartupSuperAdmins}]

DecideTexts ==
    {None, <<"A", "b">>, <<"b", "a">>, <<"x", "B", "a">>, <<"x", "a">>, <<"1">>}

InitDecide ==
    /\ store \in {<<config>> : config \in DecideConfigs}
    /\ SUPER_ADMINS = StartupSuperAdmins
    /\ next_step = [c \in {CHAT1} |-> NoHandler]
    /\ msg = NoMessage
    /\ handler = "none"
    /\ reply = NoReply
    /\ sent = <<>>
    /\ logged = <<>>
    /\ log_lines = 0
    /\ listed = [c \in DOMAIN next_step |-> <<>>]
    /\ running = [c \in DOMAIN next_step |-> <<>>]

NextDecide ==
    \/ \E p \in [chat : Channels, username : {None}, text : DecideTexts],
             failing \in Failures :
           handle_channel_post(p, failing)
    \/ midnight

SpecDecide == InitDecide /\ [][NextDecide]_vars

(***************************************************************************)
(* The admin flows alone, from the same start: handles are added with and  *)
(* without the '@' and in either case, and removed by position from lists  *)
(* of up to four.                                                          *)
(***************************************************************************)

AdminsAddTexts ==
    {<<"@", "e", "v", "e">>, <<"@", "E", "v", "e">>, <<" ", "e", "v", "e", " ">>}

AdminsRmTexts == {<<"1">>, <<" ", "2">>, <<"3">>, <<"4">>, <<"5">>, <<"0">>}

NextAdmins ==
    \/ \E m \in Messages : add_admin_command(m)
    \/ \E m \in Messages : rm_admin_command(m)
    \/ \E m \in Replies(AdminsAddTexts) : process_add_admin(m)
    \/ \E m \in Replies(AdminsRmTexts) : process_rm_admin(m)
    \/ midnight

SpecAdmins == Init /\ [][NextAdmins]_vars

(***************************************************************************)
(* /status alone, asked by senders and on stored documents drawn from      *)
(* small sets: admins and SUPER_ADMINS in either case and without the '@', *)
(* channels that resolve and channels that resolve no more.                *)
(***************************************************************************)

StatusHandles ==
    {<<"@", "e", "v", "e">>, <<"@", "E", "v", "e">>, <<"e", "v", "e">>,
     <<"@", "r", "o", "o", "t">>}

StatusAdminLists ==
    {<<>>} \cup {<<h>> : h \in StatusHandles}
           \cup {<<h, k>> : h \in StatusHandles, k \in StatusHandles}

StatusSuperAdminLists == {<<>>, <<(<<"@", "r", "o", "o", "t">>)>>, <<(<<"@", "E", "v", "E">>)>>}

StatusConfigs ==
    [monitor_channel : {None, <<"1">>, <<"9">>},
     keyword_initial : {<<>>},
     keyword_contain : {<<>>},
     sending_channels : {<<>>, <<(<<"1">>)>>, <<(<<"1">>), (<<"9">>)>>},
     admins : StatusAdminLists]

StatusUsernames ==
    {None, <<>>, <<"e", "v", "e">>, <<"E", "v", "E">>, <<"@", "e", "v", "e">>,
     <<"@", "E", "v", "e">>, <<"r", "o", "o", "t">>, <<"e">>}

InitStatus ==
    /\ store \in {<<>>} \cup {<<config>> : config \in StatusConfigs}
    /\ SUPER_ADMINS \in StatusSuperAdminLists
    /\ next_step = [c \in {CHAT1} |-> NoHandler]
    /\ msg = NoMessage
    /\ handler = "none"
    /\ reply = NoReply
    /\ sent = <<>>
    /\ logged = <<>>
    /\ log_lines = 0
    /\ listed = [c \in DOMAIN next_step |-> <<>>]
    /\ running = [c \in DOMAIN next_step |-> <<>>]

NextStatus ==
    \E m \in [chat : {CHAT1}, username : StatusUsernames, text : {CMD_STATUS}] :
        status_command(m)

SpecStatus == InitStatus /\ [][NextStatus]_vars

(***************************************************************************)
(* Handlers at once.  telebot runs every handler on a thread of its pool,  *)
(* so the handler of one chat may run between config = load_config() and   *)
(* save_config(config) of the handler of another chat.  Here the three     *)
(* continuations below take two steps, the first up to load_config, the    *)
(* second from there to the end; one handler per chat runs at a time.      *)
(***************************************************************************)

\* What a handler holds after config = load_config(): its message, the
\* document read, and whether config['admins'] is the SUPER_ADMINS list itself.
loaded(m, h) ==
    [handler |-> h, m |-> m, config |-> load_config, aliased |-> store = <<>>]

\* The config dict of a running handler as it is now: an admins entry that is
\* the SUPER_ADMINS list has the entries SUPER_ADMINS has now.
local_config(r) ==
    IF r.aliased THEN [r.config EXCEPT !.admins = SUPER_ADMINS] ELSE r.config

IsRunning(c, h) == running[c] # <<>> /\ running[c][1].handler = h

process_set_keyword_initial_load(m) ==
    /\ IsNextStep(m, "process_set_keyword_initial")
    /\ running[m.chat] = <<>>
    /\ next_step' = [next_step EXCEPT ![m.chat] = NoHandler]
    /\ IF m.text = None
       THEN Raised(m, "process_set_keyword_initial")
       ELSE IF /\ strip(m.text) # SENTINEL
               /\ keyword_initial_too_many(split_strip(strip(m.text)))
       THEN /\ Did(m, "process_set_keyword_initial",
                   <<"too_many", <<>>>>, <<>>, <<>>)
            /\ UNCHANGED <<store, SUPER_ADMINS>>
       ELSE /\ Observed(m, "process_set_keyword_initial", NoReply, <<>>, <<>>)
            /\ running' = [running EXCEPT
                               ![m.chat] = <<loaded(m, "process_set_keyword_initial")>>]
            /\ UNCHANGED <<store, SUPER_ADMINS>>

process_set_keyword_initial_save(c) ==
    /\ IsRunning(c, "process_set_keyword_initial")
    /\ LET r == running[c][1]
           input_text == strip(r.m.text)
           config == local_config(r)
       IN  IF input_text = SENTINEL
           THEN /\ save_config([config EXCEPT !.keyword_initial = <<>>])
                /\ Observed(r.m, "process_set_keyword_initial",
                            <<"keywords_cleared", <<>>>>, <<>>,
                            <<(<<"clear_keyword_initial", <<>>>>)>>)
           ELSE /\ save_config([config EXCEPT
                                    !.keyword_initial = split_strip(input_text)])
                /\ Observed(r.m, "process_set_keyword_initial",
                            <<"keywords_set", <<>>>>, <<>>,
                            <<(<<"set_keyword_initial", <<>>>>)>>)
    /\ running' = [running EXCEPT ![c] = <<>>]
    /\ UNCHANGED <<SUPER_ADMINS, next_step>>

process_set_sending_channel_load(m) ==
    /\ IsNextStep(m, "process_set_sending_channel")
    /\ running[m.chat] = <<>>
    /\ next_step' = [next_step EXCEPT ![m.chat] = NoHandler]
    /\ IF m.text = None
       THEN Raised(m, "process_set_sending_channel")
       ELSE LET channel_ids == split_strip(m.text)
                bad == first_invalid(channel_ids)
            IN  IF sending_channels_too_many(channel_ids)
                THEN /\ Did(m, "process_set_sending_channel",
                            <<"too_many", <<>>>>, <<>>, <<>>)
                     /\ UNCHANGED <<store, SUPER_ADMINS>>
                ELSE IF bad # 0
                THEN /\ Did(m, "process_set_sending_channel",
                            <<"invalid_channel", channel_ids[bad]>>, <<>>, <<>>)
                     /\ UNCHANGED <<store, SUPER_ADMINS>>
                ELSE /\ Observed(m, "process_set_sending_channel", NoReply, <<>>, <<>>)
                     /\ running' = [running EXCEPT
                                        ![m.chat] = <<loaded(m, "process_set_sending_channel")>>]
                     /\ UNCHANGED <<store, SUPER_ADMINS>>

process_set_sending_channel_save(c) ==
    /\ IsRunning(c, "process_set_sending_channel")
    /\ LET r == running[c][1]
           config == local_config(r)
       IN  /\ save_config([config EXCEPT !.sending_channels = split_strip(r.m.text)])
           /\ Observed(r.m, "process_set_sending_channel",
                       <<"sending_set", <<>>>>, <<>>,
                       <<(<<"set_sending_channel", <<>>>>)>>)
    /\ running' = [running EXCEPT ![c] = <<>>]
    /\ UNCHANGED <<SUPER_ADMINS, next_step>>

process_add_admin_load(m) ==
    /\ IsNextStep(m, "process_add_admin")
    /\ running[m.chat] = <<>>
    /\ next_step' = [next_step EXCEPT ![m.chat] = NoHandler]
    /\ IF m.text = None
       THEN Raised(m, "process_add_admin")
       ELSE /\ Observed(m, "process_add_admin", NoReply, <<>>, <<>>)
            /\ running' = [running EXCEPT ![m.chat] = <<loaded(m, "process_add_admin")>>]
            /\ UNCHANGED <<store, SUPER_ADMINS>>

process_add_admin_save(c) ==
    /\ IsRunning(c, "process_add_admin")
    /\ LET r == running[c][1]
           handle_name == strip(r.m.text)
           config == local_config(r)
           admins == Append(config.admins, handle_name)
       IN  IF ~member(handle_name, config.admins)
           THEN /\ SUPER_ADMINS' = IF r.aliased THEN admins ELSE SUPER_ADMINS
                /\ save_config([config EXCEPT !.admins = admins])
                /\ Observed(r.m, "process_add_admin",
                            <<"admin_added", handle_name>>, <<>>,
                            <<(<<"add_admin", handle_name>>)>>)
           ELSE /\ Observed(r.m, "process_add_admin",
                            <<"already_admin", handle_name>>, <<>>, <<>>)
                /\ UNCHANGED <<store, SUPER_ADMINS>>
    /\ running' = [running EXCEPT ![c] = <<>>]
    /\ UNCHANGED next_step

\* What ROOT, the one sender of these runs, writes in either chat.
RaceMessages(texts) == [chat : Chats, username : {ROOT}, text : texts]

RaceCommands ==
    RaceMessages({CMD_SET_KEYWORD_INITIAL, CMD_SET_SENDING_CHANNEL, CMD_ADD_ADMIN})

NextRace ==
    \/ \E m \in RaceCommands : set_keyword_initial_command(m)
    \/ \E m \in RaceCommands : set_sending_channel_command(m)
    \/ \E m \in RaceCommands : add_admin_command(m)
    \/ \E m \in RaceMessages({<<"a">>}) : process_set_keyword_initial_load(m)
    \/ \E c \in Chats : process_set_keyword_initial_save(c)
    \/ \E m \in RaceMessages({<<"1">>}) : process_set_sending_channel_load(m)
    \/ \E c \in Chats : process_set_sending_channel_save(c)
    \/ \E m \in RaceMessages({<<"@", "e", "v", "e">>}) : process_add_admin_load(m)
    \/ \E c \in Chats : process_add_admin_save(c)
    \/ midnight

SpecRace == InitChats /\ [][NextRace]_vars

(***************************************************************************)
(* The log cleanup alone: the bot is started on a day whose log unit holds *)
(* up to a few lines more than the limit; clean_old_logs runs at startup   *)
(* and after every midnight.                                               *)
(***************************************************************************)

\* How far over the limit the unit is found.
MaxLogExcess == 3

InitLog ==
    /\ store = <<>>
    /\ SUPER_ADMINS = StartupSuperAdmins
    /\ next_step = [c \in {CHAT1} |-> NoHandler]
    /\ msg = NoMessage
    /\ handler = "none"
    /\ reply = NoReply
    /\ sent = <<>>
    /\ logged = <<>>
    /\ log_lines \in 0..(LOG_LIMIT + MaxLogExcess)
    /\ listed = [c \in DOMAIN next_step |-> <<>>]
    /\ running = [c \in DOMAIN next_step |-> <<>>]

NextLog ==
    \/ clean_old_logs
    \/ midnight

SpecLog == InitLog /\ [][NextLog]_vars

(***************************************************************************)
(* The claims.                                                             *)
(***************************************************************************)

\* The handlers of chat messages, as against channel posts.
ChatStep == handler' # "handle_channel_post"

\* C1: the stored configuration changes only on a message whose sender
\* passes is_admin when the message arrives.
C1_WrittenOnlyByAdmins ==
    [][store' # store => is_admin(msg'.username)]_vars

\* C2: the in-process super-admin set is the set read at startup, in every
\* reachable state.
C2_SuperAdminsImmutable ==
    {SUPER_ADMINS[i] : i \in 1..Len(SUPER_ADMINS)}
        = {StartupSuperAdmins[i] : i \in 1..Len(StartupSuperAdmins)}

\* C3: every handle of the startup super-admin list passes is_admin in every
\* reachable state.
C3_SuperAdminAlwaysAuthorized ==
    \A i \in 1..Len(StartupSuperAdmins) : is_admin(StartupSuperAdmins[i])

\* C4: every stored document holds at most 5 keyword_initial entries, at most
\* 5 keyword_contain entries and at most 3 sending_channels entries.
C4_Cardinality ==
    store # <<>> =>
        /\ Len(store[1].keyword_initial) <= 5
        /\ Len(store[1].keyword_contain) <= 5
        /\ Len(store[1].sending_channels) <= 3

\* A sixth keyword was refused while the stored list stays at its 5 entries,
\* with keyword_contain at 5 and sending_channels at 3 as well.
C4_Witness ==
    /\ handler = "process_set_keyword_initial"
    /\ msg.text = SIX
    /\ reply[1] = "too_many"
    /\ store # <<>>
    /\ Len(store[1].keyword_initial) = 5
    /\ Len(store[1].keyword_contain) = 5
    /\ Len(store[1].sending_channels) = 3

\* Two characters that are one letter in either case.
SameLetter(c, d) ==
    c = d \/ \E i \in DOMAIN UpperCase : {c, d} = {UpperCase[i], LowerCase[i]}

SameIgnoringCase(a, b) ==
    Len(a) = Len(b) /\ \A i \in 1..Len(a) : SameLetter(a[i], b[i])

IsPrefixIgnoringCase(keyword, text) ==
    /\ Len(keyword) <= Len(text)
    /\ SameIgnoringCase(keyword, SubSeq(text, 1, Len(keyword)))

IsSubstringIgnoringCase(keyword, text) ==
    \E i \in 1..(Len(text) - Len(keyword) + 1) :
        SameIgnoringCase(keyword, SubSeq(text, i, i + Len(keyword) - 1))

\* The first entry of a list with a property.
FirstWith(list, P(_)) ==
    list[CHOOSE i \in 1..Len(list) : P(list[i]) /\ \A j \in 1..(i - 1) : ~P(list[j])]

\* The reference decision: <<shouldForward, matchedKeyword>>.
Decide(text, config) ==
    LET Prefix(k) == IsPrefixIgnoringCase(k, text)
        Inside(k) == IsSubstringIgnoringCase(k, text)
        initial == config.keyword_initial
        contain == config.keyword_contain
    IN  IF initial = <<>> /\ contain = <<>> THEN <<TRUE, None>>
        ELSE IF \E i \in 1..Len(initial) : Prefix(initial[i])
        THEN <<TRUE, FirstWith(initial, Prefix)>>
        ELSE IF \E i \in 1..Len(contain) : Inside(contain[i])
        THEN <<TRUE, FirstWith(contain, Inside)>>
        ELSE <<FALSE, None>>

\* What the handler did with the post, read off its sends and its log entry.
Forwarded == logged # <<>>

PostText == IF msg.text = None THEN <<>> ELSE msg.text

\* C5: on a post of the monitored channel the handler forwards exactly when
\* the reference decision says so, to every sending channel, and records the
\* keyword the reference decision names: none when both lists are empty,
\* else the first prefix rule that matches, else the first substring rule.
C5_DecisionIsReference ==
    (handler = "handle_channel_post" /\ msg.chat = load_config.monitor_channel) =>
        LET decision == Decide(PostText, load_config)
            channels == load_config.sending_channels
        IN  /\ Forwarded <=> decision[1]
            /\ ~decision[1] => sent = <<>>
            /\ decision[1] =>
                   /\ sent = [i \in 1..Len(channels) |-> <<channels[i], PostText>>]
                   /\ logged = IF decision[2] = None
                               THEN <<(<<"copy_default", <<>>>>)>>
                               ELSE <<(<<"copy_matched", decision[2]>>)>>

\* A post that a substring rule matches too is forwarded on its prefix rule.
C5_Witness ==
    /\ handler = "handle_channel_post"
    /\ msg.text = <<"A", "b">>
    /\ load_config.keyword_initial = <<(<<"B">>), (<<"a">>)>>
    /\ load_config.keyword_contain = <<(<<"B">>)>>
    /\ logged = <<(<<"copy_matched", <<"a">>>>)>>
    /\ sent # <<>>

\* C6: with a keyword list that is not empty, a post without text on the
\* monitored channel is sent nowhere.
C6_EmptyTextNotForwarded ==
    ( /\ handler = "handle_channel_post"
      /\ msg.text = None
      /\ msg.chat = load_config.monitor_channel
      /\ (load_config.keyword_initial # <<>> \/ load_config.keyword_contain # <<>>) )
    => sent = <<>>

\* The continuation each prompting command registers.
ContinuationOf(h) ==
    CASE h = "set_monitor_channel_command" -> "process_set_monitor_channel"
      [] h = "set_keyword_initial_command" -> "process_set_keyword_initial"
      [] h = "set_keyword_contain_command" -> "process_set_keyword_contain"
      [] h = "set_sending_channel_command" -> "process_set_sending_channel"
      [] h = "add_admin_command" -> "process_add_admin"
      [] h = "rm_admin_command" -> "process_rm_admin"

PromptingCommands ==
    {"set_monitor_channel_command", "set_keyword_initial_command",
     "set_keyword_contain_command", "set_sending_channel_command",
     "add_admin_command", "rm_admin_command"}

\* The step is a handler run on a message of chat c.
InChat(c) == ChatStep /\ msg'.chat = c

\* While chat c awaits a reply, its next message goes to the registered
\* continuation, whatever it says, and the chat is Idle afterwards.
FlowConsumed(c) ==
    (InChat(c) /\ next_step[c] # NoHandler) =>
        /\ handler' = next_step[c]
        /\ next_step'[c] = NoHandler

\* A command of a sender the gate refuses leaves chat c Idle.
FlowDenied(c) ==
    ( /\ InChat(c)
      /\ next_step[c] = NoHandler
      /\ handler' \in PromptingCommands
      /\ ~is_admin(msg'.username) )
    => next_step'[c] = NoHandler /\ reply'[1] = "denied"

\* A prompting command of a sender the gate admits leaves chat c awaiting
\* the reply, with that command's continuation.
FlowPrompted(c) ==
    ( /\ InChat(c)
      /\ next_step[c] = NoHandler
      /\ handler' \in PromptingCommands
      /\ is_admin(msg'.username) )
    => next_step'[c] = ContinuationOf(handler')

\* The same, but for /rm_admin with no admin to list, which stays Idle.
FlowPromptedUnlessNothingToRemove(c) ==
    ( /\ InChat(c)
      /\ next_step[c] = NoHandler
      /\ handler' \in PromptingCommands
      /\ is_admin(msg'.username) )
    => IF handler' = "rm_admin_command" /\ load_config.admins = <<>>
       THEN next_step'[c] = NoHandler /\ reply'[1] = "no_admins"
       ELSE next_step'[c] = ContinuationOf(handler')

\* A step in one chat leaves the flow of every other chat as it was.
FlowOthersKept(c) ==
    InChat(c) => \A d \in Chats \ {c} : next_step'[d] = next_step[d]

\* C7 as stated: Idle -> AwaitingReply(handler) -> Idle, every prompting
\* command of an admitted sender moving its chat to AwaitingReply.
C7_FlowStateMachine ==
    [][\A c \in Chats :
          /\ FlowPrompted(c)
          /\ FlowConsumed(c)
          /\ FlowDenied(c)
          /\ FlowOthersKept(c)]_vars

\* C7 amended: as C7, except that /rm_admin of an admitted sender, issued
\* while admins is empty, answers that there is nobody to remove and leaves
\* the chat Idle.
C7_FlowStateMachineAmended ==
    [][\A c \in Chats :
          /\ FlowPromptedUnlessNothingToRemove(c)
          /\ FlowConsumed(c)
          /\ FlowDenied(c)
          /\ FlowOthersKept(c)]_vars

\* A command text was taken as the reply of one chat, which is Idle again,
\* while the other chat still awaits its own reply.
C7_Witness ==
    /\ handler = "process_set_keyword_initial"
    /\ msg.text = CMD_HELP
    /\ msg.chat = CHAT1
    /\ store # <<>>
    /\ store[1].keyword_initial = <<CMD_HELP>>
    /\ next_step[CHAT1] = NoHandler
    /\ next_step[CHAT2] = "process_rm_admin"

\* The number of identifiers (or keywords) a comma-separated text submits.
Submitted(text) == Cardinality({i \in 1..Len(text) : text[i] = ","}) + 1

\* The identifiers of a batch that do not resolve, by position.
Unresolved(ids) == {i \in 1..Len(ids) : ids[i] \notin Accessible}

FirstUnresolved(ids) ==
    ids[CHOOSE i \in Unresolved(ids) : \A j \in Unresolved(ids) : i <= j]

SetSendingStep == handler' = "process_set_sending_channel" /\ msg'.text # None

\* C8 as stated: a batch with an identifier that does not resolve is refused
\* with an error naming the first such identifier, and the document is
\* unchanged; sending_channels changes only to a batch that resolves whole.
C8_AllOrNothing ==
    [][SetSendingStep =>
          LET ids == split_strip(msg'.text)
          IN  /\ Unresolved(ids) # {} =>
                     /\ store' = store
                     /\ reply' = <<"invalid_channel", FirstUnresolved(ids)>>
              /\ store' # store =>
                     /\ Unresolved(ids) = {}
                     /\ store' = <<[load_config EXCEPT !.sending_channels = ids]>>]_vars

\* C8 amended: a batch of more than 3 identifiers is refused for its size,
\* whether or not its identifiers resolve; a batch of at most 3 with an
\* identifier that does not resolve is refused with an error naming the first
\* such identifier; either way the document is unchanged.  A batch of at most
\* 3 identifiers that all resolve replaces sending_channels wholesale.
C8_AllOrNothingAmended ==
    [][SetSendingStep =>
          LET ids == split_strip(msg'.text)
          IN  IF Submitted(msg'.text) > 3
              THEN store' = store /\ reply'[1] = "too_many"
              ELSE IF Unresolved(ids) # {}
              THEN /\ store' = store
                   /\ reply' = <<"invalid_channel", FirstUnresolved(ids)>>
              ELSE store' = <<[load_config EXCEPT !.sending_channels = ids]>>]_vars

\* A batch whose second and third identifiers do not resolve was refused
\* naming the second, and the three channels stored before are still there.
C8_Witness ==
    /\ handler = "process_set_sending_channel"
    /\ msg.text = <<"1", ",", "9", ",", "8">>
    /\ reply = <<"invalid_channel", <<"9">>>>
    /\ store # <<>>
    /\ store[1].sending_channels = <<(<<"1">>), (<<"2">>), (<<"1">>)>>

\* The reply is refused by the continuation that takes it.
Refused ==
    /\ ChatStep
    /\ msg'.text # None
    /\ \/ /\ handler' = "process_set_keyword_initial"
          /\ strip(msg'.text) # SENTINEL
          /\ Submitted(msg'.text) > 5
       \/ /\ handler' = "process_set_keyword_contain"
          /\ strip(msg'.text) # SENTINEL
          /\ Submitted(msg'.text) > 5
       \/ /\ handler' = "process_set_sending_channel"
          /\ Submitted(msg'.text) > 3
       \/ /\ handler' = "process_set_monitor_channel"
          /\ strip(msg'.text) \notin Accessible
       \/ /\ handler' = "process_rm_admin"
          /\ int_raises(msg'.text)
       \/ /\ handler' = "process_rm_admin"
          /\ ~int_raises(msg'.text)
          /\ (int(msg'.text) < 1 \/ int(msg'.text) > Len(load_config.admins))

\* C9: a reply its continuation refuses (too many keywords or channels, a
\* monitored channel that does not resolve, an index that is no integer or
\* lies outside 1..len(admins)) leaves the stored document as it was.
C9_RefusalKeepsDocument ==
    [][Refused => store' = store /\ SUPER_ADMINS' = SUPER_ADMINS]_vars

\* Index 0 was refused with two admins stored.
C9_Witness ==
    /\ handler = "process_rm_admin"
    /\ msg.text = <<"0">>
    /\ reply[1] = "invalid_index"
    /\ store # <<>>
    /\ Len(store[1].admins) = 2

\* C10: a post whose channel is not monitor_channel (unset included) sends
\* nothing, logs nothing and changes nothing.
C10_UnmonitoredPostIgnored ==
    [][(handler' = "handle_channel_post" /\ msg'.chat # load_config.monitor_channel) =>
          /\ sent' = <<>>
          /\ logged' = <<>>
          /\ store' = store
          /\ SUPER_ADMINS' = SUPER_ADMINS
          /\ next_step' = next_step]_vars

\* A post of the other channel was ignored although the rule set would have
\* forwarded it to the stored sending channels.
C10_Witness ==
    /\ handler = "handle_channel_post"
    /\ store # <<>>
    /\ store[1].monitor_channel = <<"1">>
    /\ msg.chat = <<"2">>
    /\ store[1].keyword_initial = <<>>
    /\ store[1].keyword_contain = <<>>
    /\ store[1].sending_channels # <<>>
    /\ sent = <<>>
    /\ logged = <<>>

\* C11: when a post of the monitored channel is to be forwarded, one send of
\* its text is attempted for every entry of sending_channels, in order, each
\* entry once, whichever of the sends raise, and the handler runs on to its
\* log entry; with both keyword lists empty and one sending channel d that
\* is one send, to d, of the post's text.
C11_EveryDestinationAttempted ==
    ( /\ handler = "handle_channel_post"
      /\ msg.chat = load_config.monitor_channel
      /\ Decide(PostText, load_config)[1] )
    => LET channels == load_config.sending_channels
       IN  /\ Len(sent) = Len(channels)
           /\ \A i \in 1..Len(channels) : sent[i] = <<channels[i], PostText>>
           /\ logged # <<>>
           /\ \A d \in Channels :
                  ( /\ load_config.keyword_initial = <<>>
                    /\ load_config.keyword_contain = <<>>
                    /\ channels = <<d>> )
                  => sent = <<(<<d, PostText>>)>>

\* The send to the first of three destinations raised, and so did the third,
\* to the same channel; the second was attempted in between.
C11_Witness ==
    /\ handler = "handle_channel_post"
    /\ load_config.sending_channels = <<(<<"1">>), (<<"2">>), (<<"1">>)>>
    /\ reply = <<"send_errors", <<(<<"1">>), (<<"1">>)>>>>
    /\ Len(sent) = 3
    /\ sent[2][1] = <<"2">>

\* The handle with the '@' put in front when it has none.
WithSigil(handle) ==
    IF handle # <<>> /\ handle[1] = "@" THEN handle ELSE <<"@">> \o handle

\* The entries of config.admins and of the super-admin list.
AdminEntries ==
    {load_config.admins[i] : i \in 1..Len(load_config.admins)}
        \cup {SUPER_ADMINS[i] : i \in 1..Len(SUPER_ADMINS)}

\* C12: the gate refuses an absent or empty handle under every configuration,
\* and admits any other handle exactly when the handle, with a leading '@'
\* added when missing, equals some entry of config.admins or of the
\* super-admin list up to the case of its letters.
C12_GateFunction ==
    handler = "status_command" =>
        ( reply[1] # "denied" <=>
            /\ msg.username \notin {None, <<>>}
            /\ \E entry \in AdminEntries :
                   SameIgnoringCase(WithSigil(msg.username), entry) )

\* A sender written in capitals and without '@' was admitted on an entry
\* stored in another case, while the entry stored without '@' admits nobody.
C12_Witness ==
    /\ handler = "status_command"
    /\ msg.username = <<"E", "v", "E">>
    /\ store # <<>>
    /\ store[1].admins = <<(<<"e", "v", "e">>), (<<"@", "E", "v", "e">>)>>
    /\ SUPER_ADMINS = <<>>
    /\ reply[1] # "denied"

\* The list without its i-th entry (1-based), the others in their order.
RemoveAt(list, i) ==
    [j \in 1..(Len(list) - 1) |-> IF j < i THEN list[j] ELSE list[j + 1]]

\* C13: a reply that parses to an integer i within 1..n, n the length of
\* admins, removes exactly the i-th entry, keeps the others in their order
\* and reports the removed handle; for i outside 1..n nothing is removed.
C13_RemovalByIndex ==
    [][(handler' = "process_rm_admin" /\ msg'.text # None /\ ~int_raises(msg'.text)) =>
          LET i == int(msg'.text)
              admins == load_config.admins
          IN  IF 1 <= i /\ i <= Len(admins)
              THEN /\ store' = <<[load_config EXCEPT !.admins = RemoveAt(admins, i)]>>
                   /\ reply' = <<"admin_removed", admins[i]>>
              ELSE /\ store' = store
                   /\ SUPER_ADMINS' = SUPER_ADMINS
                   /\ reply'[1] # "admin_removed"]_vars

\* Index 1 of three admins was removed: the first is reported, the second
\* and the third are left, in that order.
C13_Witness ==
    /\ handler = "process_rm_admin"
    /\ msg.text = <<"1">>
    /\ reply = <<"admin_removed", <<"@", "r", "o", "o", "t">>>>
    /\ store # <<>>
    /\ store[1].admins = <<(<<"@", "e", "v", "e">>), (<<"e", "v", "e">>)>>

\* C14: a command the gate refuses passes a record of the denial to
\* log_event, besides answering the sender and leaving the document alone.
C14_DenialLogged ==
    reply[1] = "denied" => logged # <<>>

\* C15: /status of an admitted sender answers with the status text even when
\* get_chat fails for the monitored channel or for a sending channel.
C15_StatusDegrades ==
    (handler = "status_command" /\ reply[1] # "denied") => reply[1] = "status"

\* C16: when clean_old_logs runs on a unit of more than 500 lines, the unit
\* holds at most 500 lines once it has returned.
C16_RetentionBound ==
    [][(handler' = "clean_old_logs" /\ log_lines > 500) => log_lines' <= 500]_vars

\* The document a running handler writes when nothing is merged in: the one
\* it read, with its own field set from its message.
OwnDocument(r) ==
    CASE r.handler = "process_set_keyword_initial" ->
             [r.config EXCEPT
                 !.keyword_initial = IF strip(r.m.text) = SENTINEL
                                     THEN <<>>
                                     ELSE split_strip(strip(r.m.text))]
      [] r.handler = "process_set_sending_channel" ->
             [r.config EXCEPT !.sending_channels = split_strip(r.m.text)]
      [] r.handler = "process_add_admin" ->
             [r.config EXCEPT !.admins = Append(r.config.admins, strip(r.m.text))]

\* The handler of chat c writes the document in this step.
Writes(c) ==
    running[c] # <<>> /\ running'[c] = <<>> /\ reply'[1] # "already_admin"

\* C17: whatever other handlers have read or written since a handler read
\* the document, what it then writes, and what is stored from then on, is the
\* document it read with its own field changed: nothing another handler
\* wrote in between is merged in.
C17_LastWriteWins ==
    [][\A c \in Chats : Writes(c) => store' = <<OwnDocument(running[c][1])>>]_vars

\* The usernames that are handle h, with or without '@', in some casing.
Bearers(h) ==
    {u \in StatusUsernames \ {None, <<>>} :
        SameIgnoringCase(WithSigil(u), WithSigil(h))}

\* C18: once the /add_admin continuation has reported handle h added, every
\* sender whose username is h, with or without '@' and in any casing, passes
\* is_admin.
C18_AddedThenAuthorized ==
    (handler = "process_add_admin" /\ reply[1] = "admin_added") =>
        \A u \in Bearers(reply[2]) : is_admin(u)

\* C19: once the /rm_admin continuation has reported handle h removed, h not
\* being in the super-admin list of startup, is_admin(h) is false.
C19_RemovedThenDeauthorized ==
    ( /\ handler = "process_rm_admin"
      /\ reply[1] = "admin_removed"
      /\ ~member(reply[2], StartupSuperAdmins) )
    => ~is_admin(reply[2])

\* C20: the admin the /rm_admin continuation removes for the reply i is the
\* one shown at position i of the list its chat was sent with the prompt,
\* whatever other chats have added or removed since.
C20_RemovedIsListed ==
    [][(handler' = "process_rm_admin" /\ reply'[1] = "admin_removed") =>
          LET i == int(msg'.text)
              list == listed[msg'.chat]
          IN  i \in 1..Len(list) /\ reply'[2] = list[i]]_vars

====
